---- MODULE Spec2Model ----
(***************************************************************************)
(* Model of mopidy/mpd/protocol/__init__.py: the MPD request tokenizer     *)
(* (WORD_RE, PARAM_RE, UNESCAPE_RE, tokenize) and the registration of      *)
(* request handlers (handle_request, mpd_commands, request_handlers).      *)
(*                                                                         *)
(* A string is a sequence of character ordinals (ord(c)), so that the      *)
(* character classes of the regular expressions are sets of numbers:       *)
(*   9 TAB, 10 LF, 32 SPACE, 34 ", 92 \, 48..57 0-9, 95 _, 97..122 a-z.    *)
(***************************************************************************)
EXTENDS Integers, Sequences, FiniteSets, TLC

VARIABLES
    line,              \* tokenize: the argument
    pc,                \* tokenize: "word", "loop", "returned", "raised"; "idle" outside it
    remainder,         \* tokenize: local remainder
    result,            \* tokenize: local result, NoList until it is assigned
    unquoted,          \* tokenize: local unquoted (group 1 of the last PARAM_RE match)
    quoted,            \* tokenize: local quoted (group 2 of the last PARAM_RE match)
    retval,            \* tokenize: the value returned, NoList until it returns
    exc,               \* tokenize: the message of the exception raised, "" if none
    mpd_commands,      \* module global: set of MpdCommand
    request_handlers,  \* module global: dict compiled pattern -> handler
    calls,             \* the handle_request(pattern, auth_required)(func) calls made, in order
    found              \* the last dispatch: its request and the handler it resolved to

vars == <<line, pc, remainder, result, unquoted, quoted, retval, exc,
          mpd_commands, request_handlers, calls, found>>

tokVars == <<line, pc, remainder, result, unquoted, quoted, retval, exc>>
regVars == <<mpd_commands, request_handlers, calls, found>>

(***************************************************************************)
(* Bounds                                                                  *)
(***************************************************************************)
\* longest line drawn from all strings over Alphabet
MaxLen == 5
\* longest payload s of a line  n "esc(s)"
MaxPayload == 3
\* most arguments of a line  n a1 a2 ...
MaxArgs == 3
\* most handle_request calls in one run
MaxCalls == 3

\* Python's None where a string is expected; no string holds the ordinal -1
None == <<-1>>

\* Python's None where a list of strings is expected
NoList == <<None>>

\* the characters lines are drawn from: SOH, TAB, LF, SPACE, ", 1, \, n
Alphabet == {1, 9, 10, 32, 34, 49, 92, 110}

\* the characters of Alphabet above SPACE (printable, with " and \)
Printable == {32, 34, 49, 92, 110}

(***************************************************************************)
(* Character classes                                                       *)
(***************************************************************************)
\* \s of a pattern compiled without re.UNICODE: [ \t\n\r\f\v]
IsSpace(c) == c \in {9, 10, 11, 12, 13, 32}

\* [a-z]
IsNameStart(c) == c \in 97..122

\* a name class without the digits, [a-z_] as in handle_request
IsNameCharNoDigits(c) == c \in (97..122) \cup {95}

\* [a-z0-9_]
IsNameChar(c) == c \in (97..122) \cup (48..57) \cup {95}

\* ''.join(map(chr, range(0x21))): the ordinals 0 .. 0x20
IsUnprintable(c) == c \in 0..32

\* [^%(unprintable)s"\\]
IsUnquotedChar(c) == ~IsUnprintable(c) /\ c # 34 /\ c # 92

\* a quoted class that leaves the unprintable characters out as well
IsQuotedCharPrintable(c) == ~IsUnprintable(c) /\ c # 34 /\ c # 92

\* [^"\\]
IsQuotedChar(c) == c # 34 /\ c # 92

\* . of a pattern compiled without re.DOTALL: anything but a newline
IsDot(c) == c # 10

\* [a-z_] of handle_request
IsLowerOrUnderscore(c) == c \in (97..122) \cup {95}

\* c is in the character class written cls in a pattern
InClass(cls, c) ==
    CASE cls = "\\s" -> IsSpace(c)
      [] cls = "[a-z0-9_]" -> IsNameChar(c)
      [] cls = "[^unprintable\"\\]" -> IsUnquotedChar(c)
      [] cls = "." -> IsDot(c)
      [] cls = "[a-z_]" -> IsLowerOrUnderscore(c)

\* the end of a greedy cls* (or cls+) that starts at s[i]: the first index
\* j >= i that is past the end of s or whose character is not in the class
RunEnd(s, i, cls) ==
    CHOOSE j \in i..(Len(s) + 1) :
        /\ \A k \in i..(j - 1) : InClass(cls, s[k])
        /\ (j = Len(s) + 1 \/ ~InClass(cls, s[j]))

\* s[i:]
From(s, i) == SubSeq(s, i, Len(s))

\* the group ( .* ) matched at s[i]: the characters up to the next newline or the end
DotStar(s, i) == SubSeq(s, i, RunEnd(s, i, ".") - 1)

\* (?: \s+ | $ ) matched at s[i]: the index after it, 0 when neither matches.
\* \s+ is greedy and what follows, the group .* , matches anywhere, so it never gives
\* back; $ is tried when s[i] is no whitespace, and then matches only at the
\* end of s ($ before a final newline is a case \s+ took already).
SpaceOrEnd(s, i) ==
    LET w == RunEnd(s, i, "\\s")
    IN  IF w > i THEN w
        ELSE IF i = Len(s) + 1 THEN i
        ELSE 0

(***************************************************************************)
(* WORD_RE.match(s): [matched, command, remainder]                         *)
(* the pattern:  ^ ( [a-z][a-z0-9_]* ) (?: \s+ | $ ) ( .* )                *)
(* A shorter name than the greedy one is followed by a name character,     *)
(* which is neither whitespace nor the end, so backtracking finds nothing. *)
(***************************************************************************)
WORD_RE(s) ==
    LET e == IF Len(s) >= 1 /\ IsNameStart(s[1]) THEN RunEnd(s, 2, "[a-z0-9_]") ELSE 1
        w == IF e > 1 THEN SpaceOrEnd(s, e) ELSE 0
    IN  IF w = 0
        THEN [matched |-> FALSE, command |-> None, remainder |-> None]
        ELSE [matched |-> TRUE, command |-> SubSeq(s, 1, e - 1),
              remainder |-> DotStar(s, w)]

(***************************************************************************)
(* The quoted alternative of PARAM_RE, the unrolled "(?:[^"\\]|\\.)*" : the *)
(* index of the closing quote of a quoted token whose body starts at s[i], *)
(* 0 when there is none. The body is read                                  *)
(* one unit at a time: a character that is neither " nor \, or a \ with    *)
(* the character after it (any but a newline); the first " not so escaped  *)
(* closes the token, and no other reading of the body exists.              *)
(***************************************************************************)
RECURSIVE QuoteClose(_, _)
QuoteClose(s, i) ==
    IF i > Len(s) THEN 0
    ELSE IF s[i] = 34 THEN i
    ELSE IF s[i] = 92
         THEN IF i + 1 <= Len(s) /\ IsDot(s[i + 1]) THEN QuoteClose(s, i + 2) ELSE 0
    ELSE IF IsQuotedChar(s[i]) THEN QuoteClose(s, i + 1)
    ELSE 0

(***************************************************************************)
(* PARAM_RE.match(s): [matched, unquoted, quoted, remainder]               *)
(* the pattern:  ^ (?: ( [^\x00-\x20"\\]+ ) | "quoted" ) (?: \s+ | $ ) ( .* ) *)
(* The two alternatives differ in their first character. A shorter         *)
(* unquoted run than the greedy one is followed by an unquoted character,  *)
(* neither whitespace nor the end, so backtracking finds nothing.          *)
(***************************************************************************)
NoParam == [matched |-> FALSE, unquoted |-> None, quoted |-> None, remainder |-> None]

\* a PARAM_RE whose last group starts where the token does: nothing is consumed
PARAM_RE_NoAdvance(s) ==
    LET u == RunEnd(s, 1, "[^unprintable\"\\]")
        q == IF Len(s) >= 1 /\ s[1] = 34 THEN QuoteClose(s, 2) ELSE 0
        t == IF u > 1 THEN u ELSE IF q > 0 THEN q + 1 ELSE 0
        w == IF t > 0 THEN SpaceOrEnd(s, t) ELSE 0
    IN  IF w = 0 THEN NoParam
        ELSE [matched |-> TRUE,
              unquoted |-> IF u > 1 THEN SubSeq(s, 1, u - 1) ELSE None,
              quoted |-> IF u > 1 THEN None ELSE SubSeq(s, 2, q - 1),
              remainder |-> DotStar(s, 1)]

PARAM_RE(s) ==
    LET u == RunEnd(s, 1, "[^unprintable\"\\]")
        q == IF Len(s) >= 1 /\ s[1] = 34 THEN QuoteClose(s, 2) ELSE 0
        t == IF u > 1 THEN u ELSE IF q > 0 THEN q + 1 ELSE 0
        w == IF t > 0 THEN SpaceOrEnd(s, t) ELSE 0
    IN  IF w = 0 THEN NoParam
        ELSE [matched |-> TRUE,
              unquoted |-> IF u > 1 THEN SubSeq(s, 1, u - 1) ELSE None,
              quoted |-> IF u > 1 THEN None ELSE SubSeq(s, 2, q - 1),
              remainder |-> DotStar(s, w)]

(***************************************************************************)
(* UNESCAPE_RE.sub(r'\g<1>', s) with UNESCAPE_RE = \\(.) : left to right,  *)
(* every backslash followed by a character other than a newline is         *)
(* replaced by that character; everything else is copied.                  *)
(***************************************************************************)
\* an unescape that reads backslash n as the escape code of a newline
RECURSIVE UNESCAPE_RE_sub_codes(_)
UNESCAPE_RE_sub_codes(s) ==
    IF s = <<>> THEN <<>>
    ELSE IF s[1] = 92 /\ Len(s) >= 2 /\ IsDot(s[2])
         THEN <<IF s[2] = 110 THEN 10 ELSE s[2]>> \o UNESCAPE_RE_sub_codes(From(s, 3))
    ELSE <<s[1]>> \o UNESCAPE_RE_sub_codes(Tail(s))

RECURSIVE UNESCAPE_RE_sub(_)
UNESCAPE_RE_sub(s) ==
    IF s = <<>> THEN <<>>
    ELSE IF s[1] = 92 /\ Len(s) >= 2 /\ IsDot(s[2])
         THEN <<s[2]>> \o UNESCAPE_RE_sub(From(s, 3))
    ELSE <<s[1]>> \o UNESCAPE_RE_sub(Tail(s))

\* unquoted or UNESCAPE_RE.sub(r'\g<1>', quoted): Python's or takes the
\* second operand when the first is None or empty
ParamValue(u, q) == IF u # None /\ u # <<>> THEN u ELSE UNESCAPE_RE_sub(q)

(***************************************************************************)
(* The lines tokenize is applied to                                        *)
(***************************************************************************)
StringsUpTo(S, n) == UNION {[1..k -> S] : k \in 0..n}

\* esc(s): a backslash before each double-quote and each backslash
RECURSIVE Esc(_)
Esc(s) ==
    IF s = <<>> THEN <<>>
    ELSE (IF s[1] \in {34, 92} THEN <<92, s[1]>> ELSE <<s[1]>>) \o Esc(Tail(s))

\* n "esc(s)"
QuotedLine(s) == <<110, 32, 34>> \o Esc(s) \o <<34>>

\* join(A, " ")
RECURSIVE Join(_)
Join(A) ==
    IF A = <<>> THEN <<>>
    ELSE IF Len(A) = 1 THEN A[1]
    ELSE A[1] \o <<32>> \o Join(Tail(A))

\* n + " " + join(A, " ")
JoinedLine(n, A) == n \o <<32>> \o Join(A)

\* command names and bare tokens of the joined lines: n, n1, nn / 1, n, 1n
Names == {<<110>>, <<110, 49>>, <<110, 110>>}
Tokens == {<<49>>, <<110>>, <<49, 110>>}
ArgLists == StringsUpTo(Tokens, MaxArgs)
Payloads == StringsUpTo(Printable, MaxPayload)

\* n "b" for any b, well-formed or not
RawQuotedLine(b) == <<110, 32, 34>> \o b \o <<34>>
Bodies == StringsUpTo(Alphabet, MaxPayload)

QuotedLines == {QuotedLine(s) : s \in Payloads}
RawQuotedLines == {RawQuotedLine(b) : b \in Bodies}
JoinedLines == {JoinedLine(n, A) : n \in Names, A \in ArgLists}

Lines == StringsUpTo(Alphabet, MaxLen) \cup QuotedLines \cup RawQuotedLines \cup JoinedLines

(***************************************************************************)
(* tokenize(line)                                                          *)
(***************************************************************************)
\* match = WORD_RE.match(line); raise Exception('Invalid command') or
\* command, remainder = match.groups(); result = [command]
TokenizeWord ==
    /\ pc = "word"
    /\ LET match == WORD_RE(line)
       IN  IF ~match.matched
           THEN /\ pc' = "raised"
                /\ exc' = "Invalid command"
                /\ UNCHANGED <<remainder, result>>
           ELSE /\ pc' = "loop"
                /\ remainder' = match.remainder
                /\ result' = <<match.command>>
                /\ UNCHANGED exc
    /\ UNCHANGED <<line, unquoted, quoted, retval>>
    /\ UNCHANGED regVars

\* one iteration of  while remainder:
TokenizeParam ==
    /\ pc = "loop"
    /\ remainder # <<>>
    /\ LET match == PARAM_RE(remainder)
       IN  IF ~match.matched
           THEN /\ pc' = "raised"
                /\ exc' = "Invalid parameter"
                /\ UNCHANGED <<remainder, result, unquoted, quoted>>
           ELSE /\ unquoted' = match.unquoted
                /\ quoted' = match.quoted
                /\ remainder' = match.remainder
                /\ result' = Append(result, ParamValue(match.unquoted, match.quoted))
                /\ UNCHANGED <<pc, exc>>
    /\ UNCHANGED <<line, retval>>
    /\ UNCHANGED regVars

\* the loop ends on an empty remainder: return result
TokenizeReturn ==
    /\ pc = "loop"
    /\ remainder = <<>>
    /\ pc' = "returned"
    /\ retval' = result
    /\ UNCHANGED <<line, remainder, result, unquoted, quoted, exc>>
    /\ UNCHANGED regVars

TokInit ==
    /\ line \in Lines
    /\ pc = "word"
    /\ remainder = None
    /\ result = NoList
    /\ unquoted = None
    /\ quoted = None
    /\ retval = NoList
    /\ exc = ""

(***************************************************************************)
(* handle_request(pattern, auth_required)(func)                            *)
(***************************************************************************)
\* the pattern sources registered:  ^n   ^n$   ^1$
PatternSources == {<<94, 110>>, <<94, 110, 36>>, <<94, 49, 36>>}

\* the handler functions
Handlers == {"h1", "h2"}

\* re.search('([a-z_]+)', pattern): the first run of lowercase letters and
\* underscores anywhere in the pattern, None when it has none
CommandName(pattern) ==
    LET at == {i \in 1..Len(pattern) : IsLowerOrUnderscore(pattern[i])}
    IN  IF at = {} THEN None
        ELSE LET i == CHOOSE j \in at : \A k \in at : j <= k
             IN  SubSeq(pattern, i, RunEnd(pattern, i, "[a-z_]") - 1)

\* MpdCommand(name=..., auth_required=...)
MpdCommand(name, auth_required) == [name |-> name, auth_required |-> auth_required]

\* request_handlers = {}
EmptyDict == [p \in {} |-> "h1"]

\* a decorator without the membership test: the last registration wins
handle_request_overwrite(pattern, func, auth_required) ==
    /\ Len(calls) < MaxCalls
    /\ mpd_commands' =
          IF CommandName(pattern) # None
          THEN mpd_commands \cup {MpdCommand(CommandName(pattern), auth_required)}
          ELSE mpd_commands
    /\ request_handlers' =
          [p \in DOMAIN request_handlers \cup {pattern} |->
              IF p = pattern THEN func ELSE request_handlers[p]]
    /\ calls' = Append(calls, [pattern |-> pattern, func |-> func,
                               auth_required |-> auth_required, raised |-> FALSE])
    /\ UNCHANGED found
    /\ UNCHANGED tokVars

\* The key of request_handlers is re.compile(pattern, flags): compiling the
\* same source with the same flags again gives the object re's cache holds for
\* it, so the key is the pattern source.
\* decorator(func): the command is added to mpd_commands first; then a pattern
\* that is a key of request_handlers already raises ValueError, and a new one
\* is stored with its handler.
handle_request(pattern, func, auth_required) ==
    /\ Len(calls) < MaxCalls
    /\ mpd_commands' =
          IF CommandName(pattern) # None
          THEN mpd_commands \cup {MpdCommand(CommandName(pattern), auth_required)}
          ELSE mpd_commands
    /\ IF pattern \in DOMAIN request_handlers
       THEN /\ UNCHANGED request_handlers
            /\ calls' = Append(calls, [pattern |-> pattern, func |-> func,
                                       auth_required |-> auth_required, raised |-> TRUE])
       ELSE /\ request_handlers' =
                  [p \in DOMAIN request_handlers \cup {pattern} |->
                      IF p = pattern THEN func ELSE request_handlers[p]]
            /\ calls' = Append(calls, [pattern |-> pattern, func |-> func,
                                       auth_required |-> auth_required, raised |-> FALSE])
    /\ UNCHANGED found
    /\ UNCHANGED tokVars

(***************************************************************************)
(* dispatch(command_line): the first entry of request_handlers, in the     *)
(* order the table is iterated in, whose pattern matches the line.         *)
(***************************************************************************)
\* the request lines dispatched:  n   nn   1
Requests == {<<110>>, <<110, 110>>, <<49>>}

\* re.match of a pattern ^literal or ^literal$ : the literal is a prefix of
\* the line, or the whole line
Matches(pattern, request) ==
    LET anchored == pattern[Len(pattern)] = 36
        literal == SubSeq(pattern, 2, IF anchored THEN Len(pattern) - 1 ELSE Len(pattern))
    IN  /\ Len(literal) <= Len(request)
        /\ SubSeq(request, 1, Len(literal)) = literal
        /\ (anchored => Len(literal) = Len(request))

\* The orders a dict can be iterated in. request_handlers is a plain dict of
\* a Python 2 module (from __future__ import unicode_literals): its iteration
\* order follows the hashes of the keys, not the order of insertion.
IterationOrders(d) ==
    {o \in [1..Cardinality(DOMAIN d) -> DOMAIN d] :
        \A i, j \in DOMAIN o : i # j => o[i] # o[j]}

\* the handler of the first pattern of order o that matches
FirstMatch(d, o, request) ==
    LET at == {i \in DOMAIN o : Matches(o[i], request)}
    IN  IF at = {} THEN "UnknownCommand"
        ELSE d[o[CHOOSE i \in at : \A k \in at : i <= k]]

dispatch(request) ==
    /\ \E o \in IterationOrders(request_handlers) :
          found' = [request |-> request, handler |-> FirstMatch(request_handlers, o, request)]
    /\ UNCHANGED <<mpd_commands, request_handlers, calls>>
    /\ UNCHANGED tokVars

RegIdle ==
    /\ mpd_commands = {}
    /\ request_handlers = EmptyDict
    /\ calls = <<>>
    /\ found = [request |-> None, handler |-> "none"]

TokIdle ==
    /\ line = <<>>
    /\ pc = "idle"
    /\ remainder = None
    /\ result = NoList
    /\ unquoted = None
    /\ quoted = None
    /\ retval = NoList
    /\ exc = ""

Init == TokInit /\ RegIdle

RegInit == TokIdle /\ RegIdle

RegNext ==
    \/ \E pattern \in PatternSources, func \in Handlers, auth_required \in BOOLEAN :
          handle_request(pattern, func, auth_required)
    \/ \E request \in Requests : dispatch(request)

\* the registrations and the dispatches
RegSpec == RegInit /\ [][RegNext]_vars

Next == TokenizeWord \/ TokenizeParam \/ TokenizeReturn

Spec == Init /\ [][Next]_vars

\* tokenize is a synchronous function: once called, it runs to its end
FairSpec == Spec /\ WF_vars(Next)

Done == pc \in {"returned", "raised"}

(***************************************************************************)
(* C1                                                                      *)
(***************************************************************************)
\* C1: for every command name n and every list A of bare tokens (the empty
\* list included), tokenize(n + " " + join(A, " ")) returns n followed by the
\* tokens of A, in order and in number; tokenize(n) returns n alone.
C1_BareTokens ==
    /\ (Done /\ line \in JoinedLines) =>
          \A n \in Names, A \in ArgLists :
              line = JoinedLine(n, A) => pc = "returned" /\ retval = <<n>> \o A
    /\ (Done /\ line \in Names) => pc = "returned" /\ retval = <<line>>

\* the line  n1 1 1n n  has returned its three arguments
C1_Witness ==
    /\ pc = "returned"
    /\ line = JoinedLine(<<110, 49>>, <<(<<49>>), <<49, 110>>, (<<110>>)>>)
    /\ retval = <<(<<110, 49>>), (<<49>>), <<49, 110>>, (<<110>>)>>

(***************************************************************************)
(* C2                                                                      *)
(***************************************************************************)
\* the backslashes before position i of b, up to the nearest other character
BackslashesBefore(b, i) ==
    LET others == {j \in 1..(i - 1) : b[j] # 92}
        last == IF others = {} THEN 0 ELSE CHOOSE j \in others : \A k \in others : k <= j
    IN  i - 1 - last

\* b[i] is a backslash that escapes the character after it
IsEscaping(b, i) == b[i] = 92 /\ BackslashesBefore(b, i) % 2 = 0

\* b without its escaping backslashes
RECURSIVE KeepFrom(_, _)
KeepFrom(b, i) ==
    IF i > Len(b) THEN <<>>
    ELSE (IF IsEscaping(b, i) THEN <<>> ELSE <<b[i]>>) \o KeepFrom(b, i + 1)

\* C2: for every payload s over printable characters, tokenize('n "' + esc(s)
\* + '"') returns n and the single argument s; and the value of every quoted
\* token is its content without the escaping backslashes, the character
\* after each kept as it is (backslash n gives the letter n).
C2_QuotedRoundTrip ==
    /\ (Done /\ line \in QuotedLines) =>
          \A s \in Payloads :
              line = QuotedLine(s) => pc = "returned" /\ retval = <<(<<110>>), s>>
    /\ (pc \in {"loop", "returned"} /\ quoted # None) =>
          result[Len(result)] = KeepFrom(quoted, 1)
    /\ (Done /\ line = RawQuotedLine(<<92, 110>>)) => retval = <<(<<110>>), (<<110>>)>>

\* the line  n "\" \\"  (payload: quote, space, backslash) has returned
C2_Witness ==
    /\ pc = "returned"
    /\ line = QuotedLine(<<34, 32, 92>>)
    /\ quoted = <<92, 34, 32, 92, 92>>
    /\ retval = <<(<<110>>), <<34, 32, 92>>>>

(***************************************************************************)
(* C3                                                                      *)
(***************************************************************************)
\* s starts with a name [a-z][a-z0-9_]* of k characters that whitespace or
\* the end of s follows
HasName(s, k) ==
    /\ k \in 1..Len(s)
    /\ IsNameStart(s[1])
    /\ \A i \in 2..k : IsNameChar(s[i])
    /\ (k = Len(s) \/ IsSpace(s[k + 1]))

WellFormedName(s) == \E k \in 1..Len(s) : HasName(s, k)

\* what follows the name of s and the whitespace after the name
ParamText(s) ==
    LET k == CHOOSE j \in 1..Len(s) : HasName(s, j)
        rest == {j \in (k + 1)..Len(s) : ~IsSpace(s[j])}
    IN  IF rest = {} THEN <<>>
        ELSE From(s, CHOOSE j \in rest : \A i \in rest : j <= i)

\* t is an unquoted token, or a quoted token: a body between two quotes, in
\* which every quote is escaped and the last character escapes nothing
IsToken(t) ==
    \/ t # <<>> /\ \A i \in 1..Len(t) : IsUnquotedChar(t[i])
    \/ /\ Len(t) >= 2 /\ t[1] = 34 /\ t[Len(t)] = 34
       /\ LET b == SubSeq(t, 2, Len(t) - 1)
          IN  /\ \A i \in 1..Len(b) : b[i] = 34 => (i > 1 /\ IsEscaping(b, i - 1))
              /\ (b # <<>> => ~IsEscaping(b, Len(b)))

\* s is a sequence of tokens, each followed by whitespace or the end of s
RECURSIVE ValidParams(_)
ValidParams(s) ==
    \/ s = <<>>
    \/ \E k \in 1..Len(s) :
          /\ IsToken(SubSeq(s, 1, k))
          /\ \/ k = Len(s)
             \/ \E j \in (k + 1)..Len(s) :
                   /\ \A i \in (k + 1)..j : IsSpace(s[i])
                   /\ (j = Len(s) \/ ~IsSpace(s[j + 1]))
                   /\ ValidParams(From(s, j + 1))

\* C3: tokenize fails with 'Invalid command' exactly when the line does not
\* start with a name followed by whitespace or the end, with 'Invalid
\* parameter' exactly when the name is well-formed and some parameter of the
\* line is no token followed by whitespace or the end; a failure returns
\* no token list.
C3_FailureKinds ==
    Done =>
        /\ (exc = "Invalid command") <=> ~WellFormedName(line)
        /\ (exc = "Invalid parameter") <=>
               (WellFormedName(line) /\ ~ValidParams(ParamText(line)))
        /\ (pc = "raised" => retval = NoList)

(***************************************************************************)
(* C7                                                                      *)
(***************************************************************************)
\* C7 as stated: every line  n "b"  whose b holds a character below 0x20
\* fails with 'Invalid parameter'.
C7_ControlInQuotesRejected ==
    (Done /\ line \in RawQuotedLines) =>
        \A b \in Bodies :
            ( /\ line = RawQuotedLine(b)
              /\ \A i \in 1..Len(b) : b[i] \notin {34, 92}
              /\ \E i \in 1..Len(b) : b[i] < 32 )
            => (pc = "raised" /\ exc = "Invalid parameter")

\* C7 as amended: control characters are kept out of unquoted tokens only.
\* The value of an unquoted token never holds a character of ordinal 0x20
\* or below; a quoted token may hold any character but a newline: every
\* line  n "b"  with b free of newline, quote and backslash returns n and b.
C7_ControlOnlyOutsideQuotes ==
    /\ (pc \in {"loop", "returned"} /\ unquoted # None) =>
          \A i \in 1..Len(unquoted) : unquoted[i] > 32
    /\ (Done /\ line \in RawQuotedLines) =>
          \A b \in Bodies :
              (line = RawQuotedLine(b) /\ \A i \in 1..Len(b) : b[i] \notin {10, 34, 92})
              => (pc = "returned" /\ retval = <<(<<110>>), b>>)

\* the line  n "<TAB><SOH>"  has returned the two control characters
C7_Witness ==
    /\ pc = "returned"
    /\ line = RawQuotedLine(<<9, 1>>)
    /\ retval = <<(<<110>>), <<9, 1>>>>

(***************************************************************************)
(* C8                                                                      *)
(***************************************************************************)
\* the length of the token s starts with, whitespace or the end of s after
\* it; 0 when s starts with none
TokenEnd(s) ==
    LET ends == {k \in 1..Len(s) :
                    IsToken(SubSeq(s, 1, k)) /\ (k = Len(s) \/ IsSpace(s[k + 1]))}
    IN  IF ends = {} THEN 0 ELSE CHOOSE k \in ends : \A j \in ends : k <= j

\* s from its first character that is no whitespace
SkipSpace(s) == From(s, RunEnd(s, 1, "\\s"))

\* what is left of s once k tokens, and the whitespace after each, are taken
RECURSIVE Leftover(_, _)
Leftover(s, k) ==
    IF k = 0 \/ TokenEnd(s) = 0 THEN s
    ELSE Leftover(SkipSpace(From(s, TokenEnd(s) + 1)), k - 1)

\* C8: tokenize discards no input: when it returns, the command name, the
\* whitespace and as many parameters as it returned are the whole line, so
\* nothing of the line is left after them, newlines in the line or not.
C8_NothingDiscarded ==
    pc = "returned" =>
        /\ WellFormedName(line)
        /\ Leftover(ParamText(line), Len(retval) - 1) = <<>>

(***************************************************************************)
(* C10                                                                     *)
(***************************************************************************)
\* C10: tokenize terminates on every line: every iteration of the loop that
\* does not fail shortens the remainder, the parameters read and the
\* remainder never outnumber the characters of the line, and the call ends
\* with a token list or a failure.
C10_Terminates ==
    /\ [][(pc = "loop" /\ pc' = "loop") => Len(remainder') < Len(remainder)]_vars
    /\ [](pc \in {"loop", "returned"} => Len(result) - 1 + Len(remainder) < Len(line))
    /\ <>Done

\* the loop ran three times and tokenize returned
C10_Witness == pc = "returned" /\ Len(retval) = 4 /\ Len(line) = 7

(***************************************************************************)
(* C4                                                                      *)
(***************************************************************************)
\* the calls before call i that registered the pattern of call i
Earlier(i) == {j \in 1..(i - 1) : calls[j].pattern = calls[i].pattern}

Registered(request) ==
    {i \in 1..Len(calls) : ~calls[i].raised /\ Matches(calls[i].pattern, request)}

\* C5: a dispatch resolves to the handler of the pattern registered first
\* among the patterns that match the line.
C5_FirstRegisteredWins ==
    found.handler \in Handlers =>
        LET first == CHOOSE i \in Registered(found.request) :
                        \A k \in Registered(found.request) : i <= k
        IN  found.handler = calls[first].func

(***************************************************************************)
(* C6                                                                      *)
(***************************************************************************)
\* C6: mpd_commands holds at most one MpdCommand for a name.
C6_OneCommandPerName ==
    \A c, d \in mpd_commands : c.name = d.name => c = d

(***************************************************************************)
(* C9                                                                      *)
(***************************************************************************)
\* C9: a handle_request call that raises leaves request_handlers and
\* mpd_commands as they were.
C9_FailedCallChangesNothing ==
    [][ (Len(calls') = Len(calls) + 1 /\ calls'[Len(calls')].raised)
          => (request_handlers' = request_handlers /\ mpd_commands' = mpd_commands) ]_vars

====
